---- MODULE Spec2Model ----
(***************************************************************************)
(* A model of torch/_export/passes/replace_autocast_with_hop_pass.py.      *)
(*                                                                         *)
(* The pass is a function of a graph module and an optional graph          *)
(* signature.  The model runs it as a state machine: a call stack of       *)
(* frames (the pass calls itself on the submodules it outlined), each      *)
(* frame stepping through the statements of the pass.  A failed assert or  *)
(* a raise anywhere ends the run with status "abort".                      *)
(*                                                                         *)
(* Names, targets and constants are pairs <<string, number>>, so that any  *)
(* two of them can be compared.                                            *)
(***************************************************************************)
EXTENDS Integers, Sequences, FiniteSets, TLC

VARIABLES frames, status, error, ret

vars == <<frames, status, error, ret>>

(***************************************************************************)
(* Bounds of the input graphs.                                             *)
(***************************************************************************)
\* the number of instructions between the placeholder and the output
MaxLen == 4
\* the number of values the top-level graph returns
MaxOut == 2

(***************************************************************************)
(* torch.fx nodes and graph modules.                                       *)
(***************************************************************************)
NoneArg == <<"None", 0>>
EnterTarget == <<"_enter_autocast", 0>>
ExitTarget == <<"_exit_autocast", 0>>
GetItemTarget == <<"getitem", 0>>
WrapWithAutocast == <<"wrap_with_autocast", 0>>
OrdinaryTarget == <<"f", 0>>
NoTarget == <<"", 0>>

\* node.meta: nn_module_stack, val and torch_fn; <<"", 0>> is an absent key
NoMeta == [nn |-> <<"", 0>>, val |-> <<>>, torch_fn |-> <<"", 0>>]

\* A node.  args holds names of nodes, NoneArg and <<"int", i>> constants.
\* For an output node tup says whether args[0] is a tuple (or one Node);
\* for a wrap_with_autocast node scope is its first argument, a tuple.
MkNode(name, op, target, args, meta) ==
    [name |-> name, op |-> op, target |-> target, args |-> args,
     tup |-> FALSE, scope |-> <<>>, meta |-> meta]

\* A graph module: the nodes of its graph in order, and its submodules.
MkGM(nodes, subs) == [nodes |-> nodes, subs |-> subs]

NoSubs == [t \in {} |-> MkGM(<<>>, <<>>)]

EmptyGM == MkGM(<<>>, NoSubs)

Range(s) == {s[i] : i \in DOMAIN s}

NamesOf(nodes) == {nodes[i].name : i \in DOMAIN nodes}

\* the position of the node called name in nodes, 0 when absent
IndexOf(nodes, name) ==
    IF name \in NamesOf(nodes)
    THEN CHOOSE i \in DOMAIN nodes : nodes[i].name = name
    ELSE 0

\* node.users: the names of the nodes of the graph that have name as argument
Users(nodes, name) ==
    {nodes[i].name : i \in {j \in DOMAIN nodes : name \in Range(nodes[j].args)}}


(***************************************************************************)
(* The input graphs: one placeholder, up to MaxLen call_function nodes,    *)
(* each an ordinary call of an earlier node, an _enter_autocast or an      *)
(* _exit_autocast of an earlier node, and an output node returning a tuple *)
(* of up to MaxOut values.  Every node has its own metadata.               *)
(***************************************************************************)
PlaceholderName == <<"x", 0>>
OutputName == <<"output", 0>>

InputName(i) == IF i = 0 THEN PlaceholderName ELSE <<"n", i>>

InputMeta(i) ==
    [nn |-> <<"nn", i>>, val |-> << <<"val", i>> >>, torch_fn |-> <<"", 0>>]

\* what an instruction can be, as <<kind, position of its argument>>
Descs(n) ==
    {<<"enter", 0>>} \cup {<<k, a>> : k \in {"f", "exit"}, a \in 0..(n - 1)}

Bodies(n) ==
    {b \in [1..n -> Descs(n)] : \A i \in 1..n : b[i][2] < i}

InputNode(i, d) ==
    CASE d[1] = "enter" ->
           MkNode(InputName(i), "call_function", EnterTarget,
                  << <<"param", i>> >>, InputMeta(i))
      [] d[1] = "exit" ->
           MkNode(InputName(i), "call_function", ExitTarget,
                  <<InputName(d[2])>>, InputMeta(i))
      [] OTHER ->
           MkNode(InputName(i), "call_function", OrdinaryTarget,
                  <<InputName(d[2])>>, InputMeta(i))

OutputTuples(n) ==
    UNION {[1..k -> {InputName(i) : i \in 0..n} \cup {NoneArg}] : k \in 0..MaxOut}

OutputNode(args, tup) ==
    [MkNode(OutputName, "output", OutputName, args, NoMeta) EXCEPT !.tup = tup]

InputGM(n, b, outs) ==
    MkGM(<<MkNode(PlaceholderName, "placeholder", PlaceholderName, <<>>, InputMeta(0))>>
         \o [i \in 1..n |-> InputNode(i, b[i])]
         \o <<OutputNode(outs, TRUE)>>,
         NoSubs)

\* a graph signature: the names of its output_specs, in order
NoSignature == [given |-> FALSE, specs |-> <<>>]

Signature(specs) == [given |-> TRUE, specs |-> specs]

(***************************************************************************)
(* The predicates on nodes.                                                *)
(***************************************************************************)
is_autocast_node(node) ==
    /\ node.op = "call_function"
    /\ node.target \in {EnterTarget, ExitTarget}

is_enter_autocast_node(node) ==
    /\ node.op = "call_function"
    /\ node.target = EnterTarget

is_exit_autocast_node(node) ==
    /\ node.op = "call_function"
    /\ node.target = ExitTarget

\* nodes_filter(nodes, call_back), as the positions kept
RECURSIVE FilterAutocast(_, _)
FilterAutocast(nodes, i) ==
    IF i > Len(nodes) THEN <<>>
    ELSE (IF is_autocast_node(nodes[i]) THEN <<nodes[i]>> ELSE <<>>)
         \o FilterAutocast(nodes, i + 1)

nodes_filter_autocast(nodes) == FilterAutocast(nodes, 1)

\* nodes_first(nodes, lambda node: node.op != "placeholder"), a sequence of
\* at most one node
RECURSIVE FirstNonPlaceholder(_, _)
FirstNonPlaceholder(nodes, i) ==
    IF i > Len(nodes) THEN <<>>
    ELSE IF nodes[i].op # "placeholder" THEN <<nodes[i]>>
    ELSE FirstNonPlaceholder(nodes, i + 1)

\* a faulty variant: the first node is compared with _exit_autocast
is_exit_sub_mod(gm, node) ==
    /\ node.op = "call_module"
    /\ LET first_non_ph == FirstNonPlaceholder(gm.subs[node.target].nodes, 1)
       IN  /\ first_non_ph # <<>>
           /\ first_non_ph[1].op = "call_function"
           /\ first_non_ph[1].target = ExitTarget

is_autocast_sub_mod(gm, node) ==
    /\ node.op = "call_module"
    /\ LET first_non_ph == FirstNonPlaceholder(gm.subs[node.target].nodes, 1)
       IN  /\ first_non_ph # <<>>
           /\ first_non_ph[1].op = "call_function"
           /\ first_non_ph[1].target = EnterTarget


(***************************************************************************)
(* _split_autocast: the callback handed to sequential_split.               *)
(***************************************************************************)
\* One call of node_call_back on node, from the closure's state st.
\* ret is the value returned; err names the assert that failed, if any.
node_call_back(st, node) ==
    IF st.first_node_after_outer_most_exit
       \/ (Len(st.enter_autocast_node_stack) = 0 /\ is_enter_autocast_node(node))
    THEN IF Len(st.enter_autocast_node_stack) # 0
         THEN [st EXCEPT !.err = "assert len(enter_autocast_node_stack) == 0"]
         ELSE [enter_autocast_node_stack |->
                   IF is_enter_autocast_node(node)
                   THEN Append(st.enter_autocast_node_stack, node.name)
                   ELSE st.enter_autocast_node_stack,
               first_node_after_outer_most_exit |-> FALSE,
               ret |-> TRUE,
               err |-> ""]
    ELSE IF is_exit_autocast_node(node)
    THEN IF Len(st.enter_autocast_node_stack) = 0
         THEN [st EXCEPT !.err = "assert len(enter_autocast_node_stack) > 0"]
         ELSE LET n == Len(st.enter_autocast_node_stack)
                  last_enter_autocast_node == st.enter_autocast_node_stack[n]
                  popped == SubSeq(st.enter_autocast_node_stack, 1, n - 1)
              IN  IF node.args[1] # last_enter_autocast_node
                  THEN [st EXCEPT !.err = "assert node.args[0] == last_enter_autocast_node"]
                  ELSE [enter_autocast_node_stack |-> popped,
                        first_node_after_outer_most_exit |->
                            IF Len(popped) = 0 THEN TRUE
                            ELSE st.first_node_after_outer_most_exit,
                        ret |-> FALSE,
                        err |-> ""]
    ELSE [st EXCEPT !.ret = FALSE, !.err = ""]

\* the closure's state when _split_autocast creates the callback
InitCallBackState ==
    [enter_autocast_node_stack |-> <<>>,
     first_node_after_outer_most_exit |-> FALSE,
     ret |-> FALSE,
     err |-> ""]

(***************************************************************************)
(* sequential_split and split_module (torch/_export/utils.py and           *)
(* torch/fx/passes/split_module.py): the nodes between two delimiters      *)
(* become one submodule, called from a new top-level graph.                *)
(***************************************************************************)
IsBodyOp(node) == node.op \notin {"placeholder", "output", "get_attr"}

\* the partition of the node called name; -1 for a placeholder, the output
\* node and anything that is no node of the graph
PartOf(nodes, split_map, name) ==
    LET i == IndexOf(nodes, name)
    IN  IF i = 0 THEN -1
        ELSE IF IsBodyOp(nodes[i]) THEN split_map[i]
        ELSE -1

\* every use of a node by a node, as <<name used, position of the user>>,
\* in the order of the users and of their arguments
RECURSIVE UsesFrom(_, _)
UsesFrom(nodes, i) ==
    IF i > Len(nodes) THEN <<>>
    ELSE LET refs == SelectSeq(nodes[i].args, LAMBDA a : a \in NamesOf(nodes))
         IN  [j \in 1..Len(refs) |-> <<refs[j], i>>] \o UsesFrom(nodes, i + 1)

RECURSIVE Dedup(_)
Dedup(s) ==
    IF s = <<>> THEN <<>>
    ELSE LET front == Dedup(SubSeq(s, 1, Len(s) - 1))
         IN  IF s[Len(s)] \in Range(front) THEN front ELSE Append(front, s[Len(s)])

\* partition.inputs: what the nodes of partition p use from outside it
PartitionInputs(nodes, split_map, p) ==
    LET uses == SelectSeq(UsesFrom(nodes, 1),
                          LAMBDA u : /\ PartOf(nodes, split_map, nodes[u[2]].name) = p
                                     /\ PartOf(nodes, split_map, u[1]) # p)
    IN  Dedup([j \in 1..Len(uses) |-> uses[j][1]])

\* partition.outputs: the nodes of partition p used outside it
PartitionOutputs(nodes, split_map, p) ==
    LET uses == SelectSeq(UsesFrom(nodes, 1),
                          LAMBDA u : /\ PartOf(nodes, split_map, u[1]) = p
                                     /\ PartOf(nodes, split_map, nodes[u[2]].name) # p)
    IN  Dedup([j \in 1..Len(uses) |-> uses[j][1]])

PartitionIds(nodes, split_map) ==
    {split_map[i] : i \in {j \in DOMAIN nodes : IsBodyOp(nodes[j])}}

SubmodName(p) == <<"submod", p>>

\* the graph module of partition p: a placeholder for every input, the
\* nodes of the partition, and an output node unless nothing is returned
PartitionGM(nodes, split_map, p) ==
    LET ins == PartitionInputs(nodes, split_map, p)
        outs == PartitionOutputs(nodes, split_map, p)
        members == SelectSeq(nodes, LAMBDA n : PartOf(nodes, split_map, n.name) = p)
        phs == [j \in 1..Len(ins) |->
                   MkNode(ins[j], "placeholder", ins[j], <<>>,
                          nodes[IndexOf(nodes, ins[j])].meta)]
        out == IF Len(outs) = 0 THEN <<>>
               ELSE IF Len(outs) = 1 THEN <<OutputNode(outs, FALSE)>>
               ELSE <<OutputNode(outs, TRUE)>>
    IN  MkGM(phs \o members \o out, NoSubs)

\* the number of getitem nodes the partitions before p put in the new graph
RECURSIVE GetItemsBefore(_, _, _)
GetItemsBefore(nodes, split_map, p) ==
    IF p <= 0 THEN 0
    ELSE LET k == IF (p - 1) \in PartitionIds(nodes, split_map)
                  THEN Len(PartitionOutputs(nodes, split_map, p - 1))
                  ELSE 0
         IN  (IF k > 1 THEN k ELSE 0) + GetItemsBefore(nodes, split_map, p - 1)

\* base_mod_env: the node of the new graph that stands for the node called
\* name of the old one
BaseEnv(nodes, split_map, name) ==
    LET p == PartOf(nodes, split_map, name)
    IN  IF p = -1 THEN name
        ELSE LET outs == PartitionOutputs(nodes, split_map, p)
                 k == CHOOSE j \in 1..Len(outs) : outs[j] = name
             IN  IF Len(outs) = 1 THEN SubmodName(p)
                 ELSE <<"getitem", GetItemsBefore(nodes, split_map, p) + k - 1>>

MapArgs(nodes, split_map, args) ==
    [j \in 1..Len(args) |->
        IF args[j] \in NamesOf(nodes) THEN BaseEnv(nodes, split_map, args[j])
        ELSE args[j]]

\* the nodes partition p puts in the new graph: the call_module node and,
\* when the submodule returns a tuple, one getitem node per member
PartitionCall(nodes, split_map, p) ==
    LET ins == PartitionInputs(nodes, split_map, p)
        outs == PartitionOutputs(nodes, split_map, p)
        base == GetItemsBefore(nodes, split_map, p)
        call == MkNode(SubmodName(p), "call_module", SubmodName(p),
                       MapArgs(nodes, split_map, ins), NoMeta)
    IN  <<call>> \o
        (IF Len(outs) > 1
         THEN [j \in 1..Len(outs) |->
                  MkNode(<<"getitem", base + j - 1>>, "call_function", GetItemTarget,
                         <<SubmodName(p), <<"int", j - 1>> >>, NoMeta)]
         ELSE <<>>)

RECURSIVE PartitionCalls(_, _, _, _)
PartitionCalls(nodes, split_map, p, last) ==
    IF p > last THEN <<>>
    ELSE (IF p \in PartitionIds(nodes, split_map)
          THEN PartitionCall(nodes, split_map, p) ELSE <<>>)
         \o PartitionCalls(nodes, split_map, p + 1, last)

\* split_module(gm, gm, lambda node: split_map[node], keep_original_order=True,
\* keep_original_node_name=True)
split_module(gm, split_map) ==
    LET nodes == gm.nodes
        ids == PartitionIds(nodes, split_map)
        last == Len(nodes)
        phs == SelectSeq(nodes, LAMBDA n : n.op = "placeholder")
        outs == SelectSeq(nodes, LAMBDA n : n.op = "output")
        new_outs == [j \in 1..Len(outs) |->
                        [outs[j] EXCEPT !.args = MapArgs(nodes, split_map, outs[j].args)]]
    IN  MkGM(phs \o PartitionCalls(nodes, split_map, 0, last) \o new_outs,
             [t \in {SubmodName(p) : p \in ids} |->
                 PartitionGM(nodes, split_map, t[2])])


(***************************************************************************)
(* The call stack.  A frame is one call of replace_autocast_with_hop_pass, *)
(* with the locals of _sequential_split_and_maybe_inline_subgraphs and of  *)
(* sequential_split that the call goes through.                            *)
(***************************************************************************)
NewFrame(gm, graph_signature, target) ==
    [gm |-> gm,
     graph_signature |-> graph_signature,
     target |-> target,
     pc |-> "need_replacing",
     pos |-> 1,
     cb |-> InitCallBackState,
     split_id |-> 0,
     split_map |-> <<>>,
     new_gm |-> EmptyGM,
     new_signature |-> NoSignature,
     replace_hook |-> FALSE,
     todo |-> <<>>]

Top == frames[Len(frames)]

SetTop(f) == [frames EXCEPT ![Len(frames)] = f]

Running == status = "running" /\ Len(frames) > 0

Abort(msg) ==
    /\ status' = "abort"
    /\ error' = msg
    /\ UNCHANGED <<frames, ret>>

NoResult == [gm |-> EmptyGM, graph_signature |-> NoSignature]

Init ==
    \E n \in 0..MaxLen :
      \E b \in Bodies(n), outs \in OutputTuples(n), given \in BOOLEAN :
        /\ frames = <<NewFrame(InputGM(n, b, outs),
                               IF given THEN Signature(outs) ELSE NoSignature,
                               NoTarget)>>
        /\ status = "running"
        /\ error = ""
        /\ ret = NoResult

\* a faulty variant: the early return of lines 201-202 is never taken
need_replacing_always(gm) == TRUE

\* line 200: any(_is_autocast_node(node) for node in gm.graph.nodes)
need_replacing(gm) ==
    \E i \in DOMAIN gm.nodes : is_autocast_node(gm.nodes[i])

\* lines 200-202: the input is returned when no node is an autocast node
NeedReplacing ==
    /\ Running
    /\ Top.pc = "need_replacing"
    /\ IF ~need_replacing(Top.gm)
       THEN frames' = SetTop([Top EXCEPT !.new_gm = Top.gm,
                                         !.new_signature = Top.graph_signature,
                                         !.pc = "recurse",
                                         !.pos = 1])
       ELSE frames' = SetTop([Top EXCEPT !.pc = "node_call_back", !.pos = 1])
    /\ UNCHANGED <<status, error, ret>>

\* sequential_split's loop: one node handed to node_call_back
NodeCallBack ==
    /\ Running
    /\ Top.pc = "node_call_back"
    /\ Top.pos <= Len(Top.gm.nodes)
    /\ LET st == node_call_back(Top.cb, Top.gm.nodes[Top.pos])
           id == IF st.ret THEN Top.split_id + 1 ELSE Top.split_id
       IN  IF st.err # ""
           THEN Abort(st.err)
           ELSE /\ frames' = SetTop([Top EXCEPT !.cb = st,
                                                !.split_id = id,
                                                !.split_map = Append(Top.split_map, id),
                                                !.pos = Top.pos + 1])
                /\ UNCHANGED <<status, error, ret>>

\* sequential_split after its loop: split_module builds the new graph module
SequentialSplit ==
    /\ Running
    /\ Top.pc = "node_call_back"
    /\ Top.pos > Len(Top.gm.nodes)
    /\ frames' = SetTop([Top EXCEPT !.new_gm = split_module(Top.gm, Top.split_map),
                                    !.pc = "signature"])
    /\ UNCHANGED <<status, error, ret>>

(***************************************************************************)
(* torch.fx graph surgery (torch/fx/graph.py, torch/fx/node.py) and the    *)
(* replace hook of the graph signature (torch/export/graph_signature.py).  *)
(***************************************************************************)
IsConstant(a) == a[1] \in {"None", "int", "param"}

\* Node.replace_all_uses_with: every argument old becomes new
ReplaceAllUses(nodes, old, new) ==
    [i \in DOMAIN nodes |->
        [nodes[i] EXCEPT !.args = [j \in DOMAIN nodes[i].args |->
                                      IF nodes[i].args[j] = old THEN new
                                      ELSE nodes[i].args[j]]]]

\* Graph.erase_node, for a node that has no users left
EraseNode(nodes, name) ==
    SelectSeq(nodes, LAMBDA n : n.name # name)

\* ExportGraphSignature.replace_all_uses
SigReplaceAllUses(sig, old, new) ==
    [sig EXCEPT !.specs = [j \in DOMAIN sig.specs |->
                              IF sig.specs[j] = old THEN new ELSE sig.specs[j]]]

\* the hook ExportGraphSignature.get_replace_hook returns, called for every
\* user of old when old is replaced by (or renamed to) new: only an output
\* node as user changes the signature
RunReplaceHook(nodes, sig, hook, old, new) ==
    IF hook /\ \E i \in DOMAIN nodes :
                   nodes[i].op = "output" /\ old \in Range(nodes[i].args)
    THEN SigReplaceAllUses(sig, old, new)
    ELSE sig

\* Node._rename: the node and every reference to it carry the new name
Rename(nodes, old, new) ==
    [i \in DOMAIN nodes |->
        IF nodes[i].name = old THEN [nodes[i] EXCEPT !.name = new]
        ELSE [nodes[i] EXCEPT !.args = [j \in DOMAIN nodes[i].args |->
                                           IF nodes[i].args[j] = old THEN new
                                           ELSE nodes[i].args[j]]]]

\* the nodes with repl in the place of the node called name
Splice(nodes, name, repl) ==
    LET i == IndexOf(nodes, name)
    IN  SubSeq(nodes, 1, i - 1) \o repl \o SubSeq(nodes, i + 1, Len(nodes))

\* Graph.lint: unique names, arguments defined before their use, and the
\* targets of call_module and get_attr nodes present in the module
Lint(gm) ==
    /\ \A i, j \in DOMAIN gm.nodes : gm.nodes[i].name = gm.nodes[j].name => i = j
    /\ \A i \in DOMAIN gm.nodes :
         /\ \A j \in DOMAIN gm.nodes[i].args :
              \/ IsConstant(gm.nodes[i].args[j])
              \/ \E k \in 1..(i - 1) : gm.nodes[k].name = gm.nodes[i].args[j]
         /\ gm.nodes[i].op \in {"call_module", "get_attr"}
              => gm.nodes[i].target \in DOMAIN gm.subs

(***************************************************************************)
(* _replace_with_hop                                                       *)
(***************************************************************************)
\* a faulty variant: only the Enter is checked
check_only_enter(enter_autocast_node, exit_autocast_node) ==
    is_enter_autocast_node(enter_autocast_node)

\* the asserts of _check_valid_autocast_block; TRUE when all of them pass
check_valid_autocast_block(enter_autocast_node, exit_autocast_node) ==
    /\ is_enter_autocast_node(enter_autocast_node)
    /\ is_exit_autocast_node(exit_autocast_node)
    /\ exit_autocast_node.args[1] = enter_autocast_node.name

\* the name graph.get_attr(node.target) gives its node: the target, made
\* unique beside the call_module node of the same name
GetAttrName(target) == <<"submod_get_attr", target[2]>>

\* a faulty variant: the get_attr node gets no nn_module_stack
GetAttrNodeNoStack(node, enter_autocast_node) ==
    MkNode(<<"submod_get_attr", node.target[2]>>, "get_attr", node.target, <<>>, NoMeta)

\* lines 90-93: the get_attr node, with the enter node's nn_module_stack
GetAttrNode(node, enter_autocast_node) ==
    MkNode(GetAttrName(node.target), "get_attr", node.target, <<>>,
           [NoMeta EXCEPT !.nn = enter_autocast_node.meta.nn])

\* the name graph.call_function(wrap_with_autocast, ...) gives its node
HopName(nodes) ==
    <<"wrap_with_autocast",
      Cardinality({i \in DOMAIN nodes : nodes[i].name[1] = "wrap_with_autocast"})>>

\* the arguments after the scope: (get_attr_node, *node.args)
HopArgs(get_attr_node, node) == <<get_attr_node.name>> \o node.args

\* lines 112-121: the metadata of the node created for a tuple of outputs
TupleHopMeta(enter_autocast_node, members) ==
    [nn |-> enter_autocast_node.meta.nn,
     val |-> [j \in DOMAIN members |-> members[j].meta.val[1]],
     torch_fn |-> WrapWithAutocast]

\* line 141: the metadata of the node created for a single output
SingleHopMeta(enter_autocast_node, output_args) == output_args.meta

\* lines 106-110, 134-140: the wrap_with_autocast node
HopNode(name, enter_autocast_node, get_attr_node, node, meta) ==
    [MkNode(name, "call_function", WrapWithAutocast,
            HopArgs(get_attr_node, node), meta)
       EXCEPT !.scope = enter_autocast_node.args]

\* a faulty variant: the position in the tuple is taken for the index
GetItemMemberByPosition(get_item_node, output_args) ==
    output_args[Len(output_args) - get_item_node.args[2][2]]

\* lines 127-128: the output of the submodule a getitem node stands for
GetItemMember(get_item_node, output_args) == output_args[get_item_node.args[2][2] + 1]

\* lines 126-130: the getitem users of the new node, one after the other,
\* take the name and the metadata of the output each stands for
RECURSIVE RenameGetItems(_, _, _, _, _)
RenameGetItems(st, items, output_args, sub_nodes, hook) ==
    IF items = <<>> THEN st
    ELSE LET get_item_node == st.nodes[IndexOf(st.nodes, items[1])]
             member == GetItemMember(get_item_node, output_args)
             output_node == sub_nodes[IndexOf(sub_nodes, member)]
             renamed == Rename(st.nodes, get_item_node.name, output_node.name)
             k == IndexOf(renamed, output_node.name)
         IN  RenameGetItems(
               [nodes |-> [renamed EXCEPT ![k].meta = output_node.meta],
                sig |-> RunReplaceHook(st.nodes, st.sig, hook,
                                       get_item_node.name, output_node.name)],
               Tail(items), output_args, sub_nodes, hook)

\* the names of the users of name, in the order of the graph
UserSeq(nodes, name) ==
    LET us == SelectSeq(nodes, LAMBDA n : name \in Range(n.args))
    IN  [j \in DOMAIN us |-> us[j].name]

\* lines 149-151 and Graph.erase_node: erasing a node that still has users
\* raises
EraseChecked(nodes, name) == Users(nodes, name) = {}

\* a faulty variant: line 149 is gone, as its TODO asks
DropInvocationKeepsCall(nodes, node, get_attr_node) ==
    Splice(nodes, node.name, <<get_attr_node, node>>)

\* lines 147-149, after line 90: no output node, so the call_module node is
\* erased and nothing but the get_attr node stands in its place
DropInvocation(nodes, node, get_attr_node) ==
    Splice(nodes, node.name, <<get_attr_node>>)

\* _replace_with_hop(node) for the call_module node called name of gm, with
\* the signature sig the replace hook keeps (when hook); err names what was
\* raised, if anything
replace_with_hop(gm, sig, hook, name) ==
    LET node == gm.nodes[IndexOf(gm.nodes, name)]
        sub_gm == gm.subs[node.target]
        autocast_nodes == nodes_filter_autocast(sub_gm.nodes)
        res(g, sg, e) == [gm |-> g, sig |-> sg, err |-> e]
    IN
    IF Len(autocast_nodes) = 0 THEN res(gm, sig, "")
    ELSE IF ~(Len(autocast_nodes) > 1)
    THEN res(gm, sig, "assert len(autocast_nodes) > 1")
    ELSE
    LET enter_autocast_node == autocast_nodes[1]
        exit_autocast_node == autocast_nodes[Len(autocast_nodes)]
    IN
    IF ~check_valid_autocast_block(enter_autocast_node, exit_autocast_node)
    THEN res(gm, sig, "_check_valid_autocast_block")
    ELSE
    LET get_attr_node == GetAttrNode(node, enter_autocast_node)
        last == sub_gm.nodes[Len(sub_gm.nodes)]
        has_output == last.op = "output"
        \* the parent graph after lines 89-149
        parent ==
          IF ~has_output
          THEN \* line 149
               IF ~EraseChecked(gm.nodes, name)
               THEN [nodes |-> gm.nodes, sig |-> sig, err |-> "erase_node: node has users"]
               ELSE [nodes |-> DropInvocation(gm.nodes, node, get_attr_node),
                     sig |-> sig, err |-> ""]
          ELSE IF last.tup
          THEN LET output_args == last.args
                   members == [j \in DOMAIN output_args |->
                                  sub_gm.nodes[IndexOf(sub_gm.nodes, output_args[j])]]
                   call_func_node ==
                       HopNode(HopName(gm.nodes), enter_autocast_node, get_attr_node,
                               node, TupleHopMeta(enter_autocast_node, members))
                   \* node_replace_(node, call_func_node, delete_old=True)
                   sig1 == RunReplaceHook(gm.nodes, sig, hook, name, call_func_node.name)
                   nodes1 == Splice(ReplaceAllUses(gm.nodes, name, call_func_node.name),
                                    name, <<get_attr_node, call_func_node>>)
                   st == RenameGetItems([nodes |-> nodes1, sig |-> sig1],
                                        UserSeq(nodes1, call_func_node.name),
                                        output_args, sub_gm.nodes, hook)
               IN  [nodes |-> st.nodes, sig |-> st.sig, err |-> ""]
          ELSE LET output_args == sub_gm.nodes[IndexOf(sub_gm.nodes, last.args[1])]
                   call_func_node ==
                       HopNode(output_args.name, enter_autocast_node, get_attr_node,
                               node, SingleHopMeta(enter_autocast_node, output_args))
                   sig1 == RunReplaceHook(gm.nodes, sig, hook, name, call_func_node.name)
                   nodes1 == Splice(ReplaceAllUses(gm.nodes, name, call_func_node.name),
                                    name, <<get_attr_node, call_func_node>>)
               IN  [nodes |-> nodes1, sig |-> sig1, err |-> ""]
    IN
    IF parent.err # "" THEN res(gm, sig, parent.err)
    ELSE \* lines 150-151
    IF ~EraseChecked(sub_gm.nodes, exit_autocast_node.name)
    THEN res(gm, sig, "erase_node: exit node has users")
    ELSE LET sub1 == EraseNode(sub_gm.nodes, exit_autocast_node.name)
         IN  IF ~EraseChecked(sub1, enter_autocast_node.name)
             THEN res(gm, sig, "erase_node: enter node has users")
             ELSE res([nodes |-> parent.nodes,
                       subs |-> [gm.subs EXCEPT ![node.target] =
                                   [sub_gm EXCEPT !.nodes =
                                      EraseNode(sub1, enter_autocast_node.name)]]],
                      parent.sig, "")

(***************************************************************************)
(* node_inline_ (torch/_export/utils.py): the nodes of a submodule go back *)
(* into the graph that calls it.                                           *)
(***************************************************************************)
\* the getitem users of the call_module node, one after the other, are
\* replaced by the outputs they stand for and erased
RECURSIVE InlineGetItems(_, _, _, _)
InlineGetItems(st, items, new_output, hook) ==
    IF items = <<>> THEN st
    ELSE LET get_item_node == st.nodes[IndexOf(st.nodes, items[1])]
             new == new_output[get_item_node.args[2][2] + 1]
         IN  InlineGetItems(
               [nodes |-> EraseNode(ReplaceAllUses(st.nodes, get_item_node.name, new),
                                    get_item_node.name),
                sig |-> RunReplaceHook(st.nodes, st.sig, hook, get_item_node.name, new)],
               Tail(items), new_output, hook)

\* Module.delete_all_unused_submodules
DeleteUnusedSubmodules(nodes, subs) ==
    LET used == {nodes[i].target :
                   i \in {j \in DOMAIN nodes : nodes[j].op \in {"call_module", "get_attr"}}}
    IN  [t \in DOMAIN subs \cap used |-> subs[t]]

node_inline(gm, sig, hook, name) ==
    LET call_mod_node == gm.nodes[IndexOf(gm.nodes, name)]
        sub_gm == gm.subs[call_mod_node.target]
        phs == SelectSeq(sub_gm.nodes, LAMBDA n : n.op = "placeholder")
        body == SelectSeq(sub_gm.nodes, LAMBDA n : n.op \notin {"placeholder", "output"})
        output == SelectSeq(sub_gm.nodes, LAMBDA n : n.op = "output")
        \* node_replace_(ph, arg): the placeholders become the arguments of the call
        arg_of(a) == IF \E k \in DOMAIN phs : phs[k].name = a /\ k <= Len(call_mod_node.args)
                     THEN call_mod_node.args[CHOOSE k \in DOMAIN phs : phs[k].name = a]
                     ELSE a
        copies == [k \in DOMAIN body |->
                      [body[k] EXCEPT !.args = [j \in DOMAIN body[k].args |->
                                                   arg_of(body[k].args[j])]]]
        nodes0 == LET i == IndexOf(gm.nodes, name)
                  IN  SubSeq(gm.nodes, 1, i - 1) \o copies
                      \o SubSeq(gm.nodes, i, Len(gm.nodes))
        st == IF Len(output) = 0
              THEN [nodes |-> EraseNode(nodes0, name), sig |-> sig]
              ELSE IF ~output[1].tup
              THEN LET new_output == arg_of(output[1].args[1])
                   IN  [nodes |-> EraseNode(ReplaceAllUses(nodes0, name, new_output), name),
                        sig |-> RunReplaceHook(nodes0, sig, hook, name, new_output)]
              ELSE LET new_output == [j \in DOMAIN output[1].args |->
                                         arg_of(output[1].args[j])]
                       get_item_users ==
                           LET us == SelectSeq(nodes0,
                                       LAMBDA n : /\ name \in Range(n.args)
                                                  /\ n.op = "call_function"
                                                  /\ n.target = GetItemTarget)
                           IN  [j \in DOMAIN us |-> us[j].name]
                       st1 == InlineGetItems([nodes |-> nodes0, sig |-> sig],
                                             get_item_users, new_output, hook)
                   IN  [nodes |-> EraseNode(st1.nodes, name), sig |-> st1.sig]
    IN  [gm |-> [nodes |-> st.nodes,
                 subs |-> DeleteUnusedSubmodules(st.nodes, gm.subs)],
         sig |-> st.sig,
         err |-> ""]

(***************************************************************************)
(* _sequential_split_and_maybe_inline_subgraphs, after the split.          *)
(***************************************************************************)
\* lines 217-223: the names of the output_specs follow the output node of
\* the split graph
UpdatedSpecName(arg_node, spec_name) ==
    IF arg_node = NoneArg THEN spec_name
    ELSE IF spec_name # arg_node THEN arg_node
    ELSE spec_name

\* a faulty variant: line 225 is gone
NeverSetsReplaceHook(graph_signature) == FALSE

\* line 225: the replace hook is set when a signature was given
SetsReplaceHook(graph_signature) == graph_signature.given

\* lines 209-225, and the list of nodes line 238 hands to nodes_map (of
\* which only the call_module nodes matter)
FixSignature ==
    /\ Running
    /\ Top.pc = "signature"
    /\ LET new_gm == Top.new_gm
           outs == SelectSeq(new_gm.nodes, LAMBDA n : n.op = "output")
           calls == SelectSeq(new_gm.nodes, LAMBDA n : n.op = "call_module")
           todo == [j \in DOMAIN calls |-> calls[j].name]
       IN  IF ~Top.graph_signature.given
           THEN /\ frames' = SetTop([Top EXCEPT !.new_signature = NoSignature,
                                                !.replace_hook = FALSE,
                                                !.todo = todo,
                                                !.pc = IF todo = <<>> THEN "recurse"
                                                       ELSE "nodes_map"])
                /\ UNCHANGED <<status, error, ret>>
           ELSE IF Len(outs) = 0
           THEN Abort("StopIteration: no output node")
           ELSE LET new_gm_out_node == outs[Len(outs)]
                    specs == Top.graph_signature.specs
                IN  IF ~(new_gm_out_node.tup /\ Len(new_gm_out_node.args) = Len(specs))
                    THEN Abort("assert len(new_gm_out_node.args[0]) == len(output_specs)")
                    ELSE IF \E j \in DOMAIN specs :
                              new_gm_out_node.args[j] = NoneArg /\ specs[j] # NoneArg
                    THEN Abort("assert out_spec.arg.value is None")
                    ELSE /\ frames' = SetTop(
                              [Top EXCEPT
                                 !.new_signature =
                                     Signature([j \in DOMAIN specs |->
                                        UpdatedSpecName(new_gm_out_node.args[j], specs[j])]),
                                 !.replace_hook = SetsReplaceHook(Top.graph_signature),
                                 !.todo = todo,
                                 !.pc = IF todo = <<>> THEN "recurse"
                                        ELSE "nodes_map"])
                         /\ UNCHANGED <<status, error, ret>>

\* the rest of a nodes_map step: the result of the rewrite becomes the new
\* graph module, or what it raised ends the run
AfterRewrite(r) ==
    IF r.err # ""
    THEN Abort(r.err)
    ELSE /\ frames' = SetTop([Top EXCEPT !.new_gm = r.gm,
                                         !.new_signature = r.sig,
                                         !.todo = Tail(Top.todo),
                                         !.pc = IF Len(Top.todo) = 1 THEN "recurse"
                                                ELSE "nodes_map",
                                         !.pos = 1])
         /\ UNCHANGED <<status, error, ret>>

TodoNode == Top.new_gm.nodes[IndexOf(Top.new_gm.nodes, Top.todo[1])]

\* lines 230-231: a submodule that starts with _enter_autocast is replaced
ReplaceWithHop ==
    /\ Running
    /\ Top.pc = "nodes_map"
    /\ Top.todo # <<>>
    /\ is_autocast_sub_mod(Top.new_gm, TodoNode)
    /\ AfterRewrite(replace_with_hop(Top.new_gm, Top.new_signature,
                                     Top.replace_hook, Top.todo[1]))

\* lines 232-235: any other submodule is inlined
NodeInline ==
    /\ Running
    /\ Top.pc = "nodes_map"
    /\ Top.todo # <<>>
    /\ ~is_autocast_sub_mod(Top.new_gm, TodoNode)
    /\ AfterRewrite(node_inline(Top.new_gm, Top.new_signature,
                                Top.replace_hook, Top.todo[1]))

(***************************************************************************)
(* replace_autocast_with_hop_pass: the recursion and the return.           *)
(***************************************************************************)
\* the positions, from pos on, of the get_attr nodes of the new graph
\* (every get_attr of these graphs names a GraphModule)
GetAttrsFrom(f) ==
    {i \in DOMAIN f.new_gm.nodes : i >= f.pos /\ f.new_gm.nodes[i].op = "get_attr"}

Min(S) == CHOOSE x \in S : \A y \in S : x <= y

\* lines 255-260: the pass calls itself on the next submodule
RecurseInto ==
    /\ Running
    /\ Top.pc = "recurse"
    /\ GetAttrsFrom(Top) # {}
    /\ LET i == Min(GetAttrsFrom(Top))
           node == Top.new_gm.nodes[i]
           subgm == Top.new_gm.subs[node.target]
       IN  frames' = Append(SetTop([Top EXCEPT !.pos = i + 1]),
                            NewFrame(subgm, NoSignature, node.target))
    /\ UNCHANGED <<status, error, ret>>

\* lines 263-265 in a call the pass made itself, then line 261 in the
\* caller: setattr(new_gm, node.target, new_subgm)
ReturnToCaller ==
    /\ Running
    /\ Top.pc = "recurse"
    /\ GetAttrsFrom(Top) = {}
    /\ Len(frames) > 1
    /\ IF ~Lint(Top.new_gm)
       THEN Abort("lint")
       ELSE LET caller == frames[Len(frames) - 1]
            IN  /\ frames' = [SubSeq(frames, 1, Len(frames) - 1)
                                EXCEPT ![Len(frames) - 1] =
                                  [caller EXCEPT !.new_gm.subs[Top.target] = Top.new_gm]]
                /\ UNCHANGED <<status, error, ret>>

\* lines 263-265 in the call of the user
ReturnResult ==
    /\ Running
    /\ Top.pc = "recurse"
    /\ GetAttrsFrom(Top) = {}
    /\ Len(frames) = 1
    /\ IF ~Lint(Top.new_gm)
       THEN Abort("lint")
       ELSE /\ status' = "done"
            /\ ret' = [gm |-> Top.new_gm, graph_signature |-> Top.new_signature]
            /\ UNCHANGED <<frames, error>>

Next ==
    \/ NeedReplacing
    \/ NodeCallBack
    \/ SequentialSplit
    \/ FixSignature
    \/ ReplaceWithHop
    \/ NodeInline
    \/ RecurseInto
    \/ ReturnToCaller
    \/ ReturnResult

Spec == Init /\ [][Next]_vars


(***************************************************************************)
(* What the claims speak of.                                               *)
(***************************************************************************)
\* the graph module and the signature the pass was called with
Input == frames[1].gm

InputSignature == frames[1].graph_signature

Done == status = "done"

Aborted == status = "abort"

HasMarker(nodes) == \E i \in DOMAIN nodes : is_autocast_node(nodes[i])

IsHop(node) == node.op = "call_function" /\ node.target = WrapWithAutocast

HopCount(nodes) == Cardinality({i \in DOMAIN nodes : IsHop(nodes[i])})

\* The Enters open after the first i nodes when every Enter opens a scope
\* and every Exit closes the innermost open one: the nesting of the markers
\* as the graph has it, whatever the pass keeps track of.
RECURSIVE OpenEnters(_, _)
OpenEnters(nodes, i) ==
    IF i = 0 THEN <<>>
    ELSE LET before == OpenEnters(nodes, i - 1)
         IN  IF is_enter_autocast_node(nodes[i]) THEN Append(before, nodes[i].name)
             ELSE IF is_exit_autocast_node(nodes[i]) /\ before # <<>>
             THEN SubSeq(before, 1, Len(before) - 1)
             ELSE before

Depth(nodes, i) == Len(OpenEnters(nodes, i))

\* node i is an Exit that breaks the stack discipline: no Enter is open, or
\* the Enter it names is not the innermost open one
BadExit(nodes, i) ==
    /\ is_exit_autocast_node(nodes[i])
    /\ LET open == OpenEnters(nodes, i - 1)
       IN  \/ open = <<>>
           \/ nodes[i].args[1] # open[Len(open)]

\* the markers obey the stack discipline and every Enter is closed
Disciplined(nodes) ==
    /\ \A i \in DOMAIN nodes : ~BadExit(nodes, i)
    /\ OpenEnters(nodes, Len(nodes)) = <<>>

\* the markers are used by nothing but the Exit that closes them
MarkersUnused(nodes) ==
    \A i, j \in DOMAIN nodes :
        (is_autocast_node(nodes[i]) /\ nodes[i].name \in Range(nodes[j].args))
            => is_exit_autocast_node(nodes[j])


\* the submodule a wrap_with_autocast node of gm runs
BodyOf(gm, hop) ==
    gm.subs[gm.nodes[IndexOf(gm.nodes, hop.args[1])].target]

TheHop(gm) == gm.nodes[CHOOSE i \in DOMAIN gm.nodes : IsHop(gm.nodes[i])]

\* one top-level region that holds a properly nested inner region
NestedRegionInput ==
    /\ Disciplined(Input.nodes)
    /\ MarkersUnused(Input.nodes)
    /\ Cardinality({i \in DOMAIN Input.nodes :
                      is_enter_autocast_node(Input.nodes[i])
                      /\ Depth(Input.nodes, i - 1) = 0}) = 1
    /\ \E i \in DOMAIN Input.nodes :
          is_enter_autocast_node(Input.nodes[i]) /\ Depth(Input.nodes, i - 1) = 1

\* the call of the user has finished nodes_map and has not yet recursed
Outlined ==
    /\ status = "running"
    /\ Len(frames) = 1
    /\ frames[1].pc = "recurse"
    /\ frames[1].pos = 1

\* C1: on a graph with one top-level region that holds a properly nested
\* inner region the pass raises nothing; the split and the outlining leave
\* one wrap_with_autocast node whose submodule still holds the inner
\* _enter_autocast and _exit_autocast; and in the returned graph that
\* submodule holds a wrap_with_autocast node of its own and no marker.
C1_NestingPreservation ==
    NestedRegionInput =>
        /\ ~Aborted
        /\ Outlined =>
             /\ HopCount(frames[1].new_gm.nodes) = 1
             /\ LET body == BodyOf(frames[1].new_gm, TheHop(frames[1].new_gm))
                IN  /\ \E i \in DOMAIN body.nodes : is_enter_autocast_node(body.nodes[i])
                    /\ \E i \in DOMAIN body.nodes : is_exit_autocast_node(body.nodes[i])
        /\ Done =>
             /\ HopCount(ret.gm.nodes) = 1
             /\ LET body == BodyOf(ret.gm, TheHop(ret.gm))
                IN  /\ HopCount(body.nodes) = 1
                    /\ ~HasMarker(body.nodes)

\* C2: a graph with an _exit_autocast that comes while no _enter_autocast
\* is open, or that names another node than the innermost open
\* _enter_autocast, is never rewritten: the pass does not return.
C2_StackDisciplineRejection ==
    (\E i \in DOMAIN Input.nodes : BadExit(Input.nodes, i)) => ~Done

\* node_call_back returned True for node i of the graph of frame f
Signalled(f, i) == f.split_map[i] > (IF i = 1 THEN 0 ELSE f.split_map[i - 1])

\* C7: node_call_back returns True exactly for an _enter_autocast met while
\* no _enter_autocast is open and for the node right after an
\* _exit_autocast that closed the last open _enter_autocast; and when the
\* regions of the graph are closed and not nested, the nodes from an
\* _enter_autocast to its _exit_autocast are one partition of their own.
C7_BoundarySignals ==
    LET f == frames[1]
        nodes == f.gm.nodes
    IN  /\ \A i \in DOMAIN f.split_map :
             Signalled(f, i) <=>
                 \/ is_enter_autocast_node(nodes[i]) /\ Depth(nodes, i - 1) = 0
                 \/ /\ i > 1
                    /\ is_exit_autocast_node(nodes[i - 1])
                    /\ Depth(nodes, i - 2) = 1
        /\ (/\ Len(f.split_map) = Len(nodes)
            /\ Disciplined(nodes)
            /\ \A i \in DOMAIN nodes : Depth(nodes, i) <= 1)
           => \A i, j \in DOMAIN nodes :
                 (/\ is_enter_autocast_node(nodes[i])
                  /\ is_exit_autocast_node(nodes[j])
                  /\ nodes[j].args[1] = nodes[i].name)
                 => /\ \A k \in i..j : f.split_map[k] = f.split_map[i]
                    /\ f.split_map[i - 1] # f.split_map[i]
                    /\ j < Len(nodes) => f.split_map[j + 1] # f.split_map[j]


(***************************************************************************)
(* A call of _replace_with_hop, seen as one step: what it is given and     *)
(* what it leaves.                                                         *)
(***************************************************************************)
\* nodes_map is about to hand a submodule that starts with _enter_autocast
\* to _replace_with_hop
AtScopeBody ==
    /\ Running
    /\ Top.pc = "nodes_map"
    /\ Top.todo # <<>>
    /\ is_autocast_sub_mod(Top.new_gm, TodoNode)

\* the submodule, its markers, and its output node if it has one
ScopeBody == Top.new_gm.subs[TodoNode.target]

Markers == nodes_filter_autocast(ScopeBody.nodes)

FirstMarker == Markers[1]

LastMarker == Markers[Len(Markers)]

BodyOutput == SelectSeq(ScopeBody.nodes, LAMBDA n : n.op = "output")

\* the first marker is an Enter, the last one an Exit that names it
ValidBlock ==
    /\ Len(Markers) >= 2
    /\ FirstMarker.target = EnterTarget
    /\ LastMarker.target = ExitTarget
    /\ LastMarker.args = <<FirstMarker.name>>

\* nothing but the closing Exit uses the two markers
BlockMarkersUnused ==
    /\ Users(ScopeBody.nodes, LastMarker.name) = {}
    /\ Users(ScopeBody.nodes, FirstMarker.name) \subseteq {LastMarker.name}

\* the step raised nothing
Replaced == AtScopeBody /\ status' = "running"

\* the graph module after the step
After == frames'[Len(frames)].new_gm

\* the nodes the step added to the graph of the caller
AddedNodes == SelectSeq(After.nodes, LAMBDA n : n.name \notin NamesOf(Top.new_gm.nodes))

\* the get_attr nodes of the submodule, and the wrap_with_autocast nodes
\* that run it, after the step
NewGetAttrs ==
    SelectSeq(After.nodes, LAMBDA n : n.op = "get_attr" /\ n.target = TodoNode.target)

NewHops ==
    SelectSeq(After.nodes,
              LAMBDA n : IsHop(n) /\ \E k \in DOMAIN NewGetAttrs :
                                         n.args[1] = NewGetAttrs[k].name)

\* the submodule lost its first and its last marker and nothing else
MarkersErased ==
    After.subs[TodoNode.target].nodes =
        SelectSeq(ScopeBody.nodes,
                  LAMBDA n : n.name \notin {FirstMarker.name, LastMarker.name})

\* C3 as claimed: replacing a scope body that has no output node raises
\* nothing, erases the call_module node, adds no node at all to the graph
\* of the caller, and erases the Enter and the Exit from the submodule.
C3_NoOutputDropAddsNothing ==
    [][(AtScopeBody /\ BodyOutput = <<>>)
         => /\ status' = "running"
            /\ After.nodes = EraseNode(Top.new_gm.nodes, TodoNode.name)
            /\ MarkersErased]_vars

\* C3 as amended: replacing a scope body that has no output node, whose
\* first marker is an Enter and whose last marker is an Exit that names
\* it, the two used by nothing else, raises nothing, erases the
\* call_module node and adds no wrap_with_autocast node; the one node it
\* adds is the get_attr node of the submodule, put where the call was,
\* with the nn_module_stack of the Enter; the Enter and the Exit are
\* erased from the submodule.  Replacing any other scope body that has no
\* output node raises.
C3_NoOutputDrop ==
    [][(AtScopeBody /\ BodyOutput = <<>>)
         => IF ValidBlock /\ BlockMarkersUnused
            THEN /\ status' = "running"
                 /\ TodoNode.name \notin NamesOf(After.nodes)
                 /\ HopCount(After.nodes) = HopCount(Top.new_gm.nodes)
                 /\ Len(AddedNodes) = 1
                 /\ AddedNodes = NewGetAttrs
                 /\ IndexOf(After.nodes, AddedNodes[1].name)
                      = IndexOf(Top.new_gm.nodes, TodoNode.name)
                 /\ AddedNodes[1].meta.nn = FirstMarker.meta.nn
                 /\ EraseNode(After.nodes, AddedNodes[1].name)
                      = EraseNode(Top.new_gm.nodes, TodoNode.name)
                 /\ MarkersErased
            ELSE status' = "abort"]_vars

\* a scope body without output node was dropped: its get_attr node is in
\* the graph, no wrap_with_autocast node runs it, and its markers are gone
C3_Witness ==
    /\ Running
    /\ \E i \in DOMAIN Top.new_gm.nodes :
         LET g == Top.new_gm.nodes[i]
         IN  /\ g.op = "get_attr"
             /\ g.target \in DOMAIN Top.new_gm.subs
             /\ Top.new_gm.subs[g.target].nodes # <<>>
             /\ \A k \in DOMAIN Top.new_gm.subs[g.target].nodes :
                  /\ Top.new_gm.subs[g.target].nodes[k].op # "output"
                  /\ ~is_autocast_node(Top.new_gm.subs[g.target].nodes[k])
             /\ \A k \in DOMAIN Top.new_gm.nodes :
                  g.name \notin Range(Top.new_gm.nodes[k].args)


\* the three ways a scope body without output node makes the step raise
NoOutputLoneEnter == AtScopeBody /\ BodyOutput = <<>> /\ Len(Markers) = 1

NoOutputWrongExit ==
    AtScopeBody /\ BodyOutput = <<>> /\ Len(Markers) >= 2 /\ ~ValidBlock

NoOutputMarkerUsed ==
    AtScopeBody /\ BodyOutput = <<>> /\ ValidBlock /\ ~BlockMarkersUnused

\* the members of the tuple the scope body returns, as nodes of it
BodyMembers ==
    [j \in DOMAIN BodyOutput[1].args |->
        ScopeBody.nodes[IndexOf(ScopeBody.nodes, BodyOutput[1].args[j])]]

\* the getitem nodes that take the results of the call apart, before the step
CallGetItems ==
    SelectSeq(Top.new_gm.nodes,
              LAMBDA n : n.target = GetItemTarget /\ n.args[1] = TodoNode.name)

\* the top-level graph has one region, and in the returned graph the
\* submodule of that region returns a tuple
OneRegionReturningTuple ==
    /\ Done
    /\ Cardinality({i \in DOMAIN Input.nodes :
                      is_enter_autocast_node(Input.nodes[i])
                      /\ Depth(Input.nodes, i - 1) = 0}) = 1
    /\ \E t \in DOMAIN ret.gm.subs :
         \E k \in DOMAIN ret.gm.subs[t].nodes :
            ret.gm.subs[t].nodes[k].op = "output" /\ ret.gm.subs[t].nodes[k].tup

\* C4: replacing a scope body that returns a tuple of k values leaves one
\* wrap_with_autocast node for it, with the k val entries of the members in
\* their order, with the arguments of the Enter as scope, then the get_attr
\* node of the submodule, then the arguments of the call in their order;
\* the getitem node of index i has become a node with the name and the
\* metadata of member i; and a graph with one top-level region that
\* returns a tuple comes back with exactly one wrap_with_autocast node.
C4_TupleRegionOperation ==
    /\ [][(Replaced /\ BodyOutput # <<>> /\ BodyOutput[1].tup)
            => /\ Len(NewHops) = 1
               /\ Len(NewGetAttrs) = 1
               /\ Len(NewHops[1].meta.val) = Len(BodyMembers)
               /\ \A j \in DOMAIN BodyMembers :
                    NewHops[1].meta.val[j] = BodyMembers[j].meta.val[1]
               /\ NewHops[1].scope = FirstMarker.args
               /\ NewHops[1].args = <<NewGetAttrs[1].name>> \o TodoNode.args
               /\ \A g \in DOMAIN CallGetItems :
                    LET i == CallGetItems[g].args[2][2]
                        at == IndexOf(Top.new_gm.nodes, CallGetItems[g].name)
                        \* the get_attr node and the new node take the place
                        \* of the call, before the getitem nodes
                        now == After.nodes[at + 1]
                    IN  /\ now.name = BodyMembers[i + 1].name
                        /\ now.meta = BodyMembers[i + 1].meta
                        /\ now.target = GetItemTarget
                        /\ now.args = <<NewHops[1].name, <<"int", i>> >>]_vars
    /\ [](OneRegionReturningTuple => HopCount(ret.gm.nodes) = 1)

\* a graph with one region that returns two values came back
C4_Witness ==
    /\ OneRegionReturningTuple
    /\ \E i \in DOMAIN ret.gm.nodes :
         /\ IsHop(ret.gm.nodes[i])
         /\ Len(ret.gm.nodes[i].meta.val) = 2
         /\ Cardinality({k \in DOMAIN ret.gm.nodes :
                           /\ ret.gm.nodes[k].target = GetItemTarget
                           /\ ret.gm.nodes[k].args[1] = ret.gm.nodes[i].name}) = 2

\* C8 as claimed: after a scope body is replaced by a wrap_with_autocast
\* node, for a tuple and for a single value alike, the get_attr node and
\* the wrap_with_autocast node both have the nn_module_stack of the Enter.
C8_ProvenanceOnBoth ==
    [][(Replaced /\ BodyOutput # <<>>)
         => /\ Len(NewGetAttrs) = 1
            /\ Len(NewHops) = 1
            /\ NewGetAttrs[1].meta.nn = FirstMarker.meta.nn
            /\ NewHops[1].meta.nn = FirstMarker.meta.nn]_vars

\* C8 as amended: the get_attr node has the nn_module_stack of the Enter in
\* both cases; the wrap_with_autocast node has it when the body returns a
\* tuple; when the body returns a single value the wrap_with_autocast node
\* has the whole metadata of that value, its nn_module_stack included.
C8_Provenance ==
    [][(Replaced /\ BodyOutput # <<>>)
         => /\ Len(NewGetAttrs) = 1
            /\ Len(NewHops) = 1
            /\ NewGetAttrs[1].meta.nn = FirstMarker.meta.nn
            /\ IF BodyOutput[1].tup
               THEN NewHops[1].meta.nn = FirstMarker.meta.nn
               ELSE NewHops[1].meta = BodyMembers[1].meta]_vars

\* a scope body that returns a single value was replaced, and the value
\* was not made where the Enter was
C8_Witness ==
    /\ Done
    /\ \E i, j \in DOMAIN ret.gm.nodes :
         /\ IsHop(ret.gm.nodes[i])
         /\ ret.gm.nodes[j].name = ret.gm.nodes[i].args[1]
         /\ ret.gm.nodes[j].op = "get_attr"
         /\ ret.gm.nodes[j].meta.nn # <<"", 0>>
         /\ ret.gm.nodes[i].meta.torch_fn # WrapWithAutocast
         /\ ret.gm.nodes[i].meta.nn # ret.gm.nodes[j].meta.nn

\* an Enter met while no Enter is open that no later Exit names
UnclosedOutermostEnter(nodes) ==
    \E i \in DOMAIN nodes :
        /\ is_enter_autocast_node(nodes[i])
        /\ Depth(nodes, i - 1) = 0
        /\ ~\E j \in DOMAIN nodes :
              j > i /\ is_exit_autocast_node(nodes[j]) /\ nodes[j].args[1] = nodes[i].name

\* C9: a scope body is replaced only when its first marker is an Enter and
\* its last marker an Exit that names that Enter, and the pass aborts on
\* any other scope body; a graph with an outermost Enter that no Exit
\* closes is never returned.
C9_IncompleteScopeBlock ==
    /\ [][AtScopeBody => /\ status' = "running" => ValidBlock
                         /\ ~ValidBlock => status' = "abort"]_vars
    /\ [](UnclosedOutermostEnter(Input.nodes) => ~Done)

\* the pass aborted on a scope body whose Enter has no Exit
C9_Witness ==
    /\ Aborted
    /\ error \in {"assert len(autocast_nodes) > 1", "_check_valid_autocast_block"}
    /\ UnclosedOutermostEnter(Input.nodes)
    /\ Top.pc = "nodes_map"


\* the arguments of the output node of a graph
OutputArgs(gm) == gm.nodes[Len(gm.nodes)].args

\* C5: when a signature was given and the pass returns, the returned
\* signature has one entry per argument of the output node of the returned
\* graph, and every entry whose argument is not None is the name of that
\* argument, a node of the returned graph; the signature of the caller is
\* as it was given.
C5_NameStability ==
    (Done /\ InputSignature.given) =>
        LET out == OutputArgs(ret.gm)
            specs == ret.graph_signature.specs
        IN  /\ ret.graph_signature.given
            /\ Len(specs) = Len(out)
            /\ \A j \in DOMAIN out :
                 out[j] # NoneArg =>
                    /\ specs[j] = out[j]
                    /\ out[j] \in NamesOf(ret.gm.nodes)
            /\ InputSignature = Signature(OutputArgs(Input))

\* a named output made inside a region came back under the name of a
\* wrap_with_autocast node or of a getitem node of one
C5_Witness ==
    /\ Done
    /\ InputSignature.given
    /\ \E j \in DOMAIN ret.graph_signature.specs :
         \E i \in DOMAIN ret.gm.nodes :
            /\ ret.gm.nodes[i].name = ret.graph_signature.specs[j]
            /\ \/ IsHop(ret.gm.nodes[i])
               \/ /\ ret.gm.nodes[i].target = GetItemTarget
                  /\ \E k \in DOMAIN ret.gm.nodes :
                       /\ IsHop(ret.gm.nodes[k])
                       /\ ret.gm.nodes[k].name = ret.gm.nodes[i].args[1]

\* C6: on a graph without _enter_autocast and _exit_autocast the pass does
\* not split, outline or inline, raises nothing, and returns the graph
\* module and the signature it was given.
C6_IdempotenceOnAbsence ==
    ~HasMarker(Input.nodes) =>
        /\ \A k \in DOMAIN frames : frames[k].pc \in {"need_replacing", "recurse"}
        /\ ~Aborted
        /\ Done => ret = [gm |-> Input, graph_signature |-> InputSignature]

\* a graph of ordinary calls, with a signature, came back
C6_Witness ==
    /\ Done
    /\ ~HasMarker(Input.nodes)
    /\ Len(Input.nodes) > 3
    /\ InputSignature.given
    /\ Len(InputSignature.specs) > 0

\* no marker in the graph of gm and in the graphs of the submodules its
\* get_attr and call_module nodes name, to any depth
RECURSIVE MarkerFree(_)
MarkerFree(gm) ==
    /\ ~HasMarker(gm.nodes)
    /\ \A i \in DOMAIN gm.nodes :
         gm.nodes[i].op \in {"get_attr", "call_module"}
            => MarkerFree(gm.subs[gm.nodes[i].target])

\* C10: when the markers of the graph obey the stack discipline and the
\* pass returns, the returned graph has no _enter_autocast, no
\* _exit_autocast and no call_module node, and no submodule it refers to
\* has a marker.
C10_NoMarkerLeft ==
    (Done /\ Disciplined(Input.nodes)) =>
        /\ \A i \in DOMAIN ret.gm.nodes : ret.gm.nodes[i].op # "call_module"
        /\ MarkerFree(ret.gm)

\* a graph with a region, and ordinary calls outside it, came back
C10_Witness ==
    /\ Done
    /\ Disciplined(Input.nodes)
    /\ HasMarker(Input.nodes)
    /\ HopCount(ret.gm.nodes) = 1
    /\ \E i \in DOMAIN ret.gm.nodes :
         ret.gm.nodes[i].op = "call_function" /\ ret.gm.nodes[i].target = OrdinaryTarget

====
